---- MODULE Spec2Model ----
(***************************************************************************)
(* Model of backend/open_webui/utils/pii.py: the span overlap resolver     *)
(* (_resolve_overlaps), the text masker (text_masking) and the entity id   *)
(* consolidator (set_file_entity_ids).                                     *)
(*                                                                         *)
(* Strings are sequences of one-character strings, so that slicing,        *)
(* concatenation, lower-casing and splitting are computed, not assumed.    *)
(***************************************************************************)
EXTENDS Bags, FiniteSets, Integers, Sequences, TLC

(* ------------------------------ bounds --------------------------------- *)
\* largest start_idx of a span handed to the resolver
MaxStart == 1
\* largest length (end_idx - start_idx) of a span handed to the resolver
MaxLen == 2
\* longest list of replacement spans handed to the resolver
MaxSpans == 3
\* length of the longest text given to text_masking
MaxTextLen == 3
\* most occurrences a pii_list holds in all
MaxOccurrences == 2
\* most entities of one file_entities_dict
MaxEntities == 2
\* most documents processed in one run
MaxDocs == 2
\* number of workers that call set_file_entity_ids concurrently
NumWorkers == 2

(* --------------------------- input domains ----------------------------- *)
\* surface texts of entities (the source_entity of a span)
Surfaces == { <<"a">>, <<"b", "c">> }
\* replacement texts of the spans given to the resolver on its own
SpanReplacements == { <<"[", "{", "P", "_", "1", "}", "]">> }

\* the (type, id, text) of the detected entities given to text_masking
PiiKinds == { [type |-> <<"P">>, id |-> 1, text |-> <<"a">>],
              [type |-> <<"E">>, id |-> 2, text |-> <<"b", "c">>] }
\* the modifier lists given to text_masking
ModifierLists ==
    { <<>>,
      << [action |-> "mask", entity |-> <<"b", "c">>, type |-> <<"T">>] >>,
      << [action |-> "mask", entity |-> <<>>, type |-> <<"T">>],
         [action |-> "mask", entity |-> <<"a">>, type |-> <<"T">>] >> }
\* the characters of the texts given to text_masking, repeated in this order
Alphabet == <<"a", "b", "c">>

\* the entities a file_entities_dict may hold: key and type
FileEntityKinds ==
    { [key |-> <<"j", "o">>, type |-> <<"P">>],
      [key |-> <<"J", "o">>, type |-> <<"E">>],
      [key |-> <<"b", "o">>, type |-> <<"P">>] }
\* the registries of known entities a run starts from: ids are distinct and
\* positive, names are distinct up to letter case
InitialRegistries ==
    { <<>>,
      << [id |-> 1, label |-> <<"P", "_", "1">>, name |-> <<"J", "o">>] >>,
      << [id |-> 3, label |-> <<"E", "_", "3">>, name |-> <<"a", "l">>],
         [id |-> 1, label |-> <<"P", "_", "1">>, name |-> <<"J", "O">>] >> }

VARIABLES
    known_entities,      \* the caller's registry of known entities
    snapshot,            \* per worker: the known_entities its call was given
    document,            \* per worker: file_entities_dict as given to the call
    file_entities_dict,  \* per worker: file_entities_dict as the call returned it
    wpc,                 \* per worker: "idle", or "called" with a result to write
    docs_done,           \* per worker: number of results written to the registry
    stale,               \* a result was written whose snapshot was no longer the registry
    assigned,            \* every <<lower-cased key, id>> of the results written so far
    text,                \* text_masking: the argument text
    pii_list,            \* text_masking: the argument pii_list
    modifiers,           \* text_masking: the argument modifiers
    masked,              \* text_masking: the local text as the replacements rewrite it
    pc,                  \* position of the running function
    replacements,        \* _resolve_overlaps: the argument list
    modifier_entities,   \* _resolve_overlaps: the set of modifier surface texts
    sorted_replacements, \* _resolve_overlaps: line 48
    resolved,            \* _resolve_overlaps: the accepted list (line 49)
    next_idx,            \* _resolve_overlaps: index of the next candidate of the for loop
    returned             \* value returned by the function that ran last

maskVars == <<text, pii_list, modifiers, masked>>

resolveVars == <<replacements, modifier_entities, sorted_replacements, resolved,
                 next_idx>>

idVars == <<known_entities, snapshot, document, file_entities_dict, wpc, docs_done,
            stale, assigned>>

vars == <<known_entities, snapshot, document, file_entities_dict, wpc, docs_done,
          stale, assigned, text, pii_list, modifiers, masked, pc, replacements, modifier_entities, sorted_replacements, resolved,
          next_idx, returned>>

(* ------------------------- sequence helpers ---------------------------- *)
Range(s) == { s[i] : i \in 1..Len(s) }

SeqsUpTo(S, n) == UNION { [1..k -> S] : k \in 0..n }

RECURSIVE SeqToBag(_)
SeqToBag(s) ==
    IF s = <<>> THEN EmptyBag ELSE SetToBag({Head(s)}) (+) SeqToBag(Tail(s))

\* s without the elements at the positions in idxs (list.pop of each, highest first)
RemoveIndices(s, idxs) ==
    LET keep == { i \in 1..Len(s) : i \notin idxs }
        RECURSIVE Build(_)
        Build(i) ==
            IF i > Len(s) THEN <<>>
            ELSE IF i \in keep THEN <<s[i]>> \o Build(i + 1)
            ELSE Build(i + 1)
    IN Build(1)

\* insert x into the list s, sorted ascending by start_idx, after every element
\* whose start_idx is <= x's (stable)
RECURSIVE InsertAscending(_, _)
InsertAscending(s, x) ==
    IF s = <<>> THEN <<x>>
    ELSE IF Head(s).start_idx <= x.start_idx
         THEN <<Head(s)>> \o InsertAscending(Tail(s), x)
         ELSE <<x>> \o s

\* variant of SortedByStart: the list is left in the order it was given in
SortedByStart_Unsorted(s) == s

\* sorted(replacements, key=lambda x: x["start_idx"]): stable, ascending
RECURSIVE SortedByStart(_)
SortedByStart(s) ==
    IF s = <<>> THEN <<>>
    ELSE InsertAscending(SortedByStart(SubSeq(s, 1, Len(s) - 1)), s[Len(s)])

(* -------------------------- _check_overlap ----------------------------- *)
_check_overlap(range1, range2) ==
    LET start1 == range1[1]
        end1 == range1[2]
        start2 == range2[1]
        end2 == range2[2]
    IN start1 < end2 /\ start2 < end1

_get_range_length(range_tuple) == range_tuple[2] - range_tuple[1]

RangeOf(span) == <<span.start_idx, span.end_idx>>

(* ------------------------- _resolve_overlaps --------------------------- *)
\* lines 56-60: the indices of the accepted spans that overlap current, ascending
OverlappingIndices(res, current) ==
    { i \in 1..Len(res) : _check_overlap(RangeOf(current), RangeOf(res[i])) }

\* variant of PairOutcome: provenance is ignored, the lengths alone decide
PairOutcome_LengthOnly(current, existing, mods) ==
    IF _get_range_length(RangeOf(current)) > _get_range_length(RangeOf(existing))
    THEN "remove" ELSE "skip"

\* variant of PairOutcome: at equal length and equal provenance the later span wins
PairOutcome_TieLaterWins(current, existing, mods) ==
    LET current_is_modifier == current.source_entity \in mods
        existing_is_modifier == existing.source_entity \in mods
    IN IF current_is_modifier /\ ~existing_is_modifier THEN "remove"
       ELSE IF ~current_is_modifier /\ existing_is_modifier THEN "skip"
       ELSE IF _get_range_length(RangeOf(current)) >= _get_range_length(RangeOf(existing))
       THEN "remove" ELSE "skip"

\* lines 75-108: the outcome of one pair; "remove" = the accepted span is marked
\* for removal and the loop goes on, "skip" = current is dropped and the loop breaks
PairOutcome(current, existing, mods) ==
    LET current_is_modifier == current.source_entity \in mods
        existing_is_modifier == existing.source_entity \in mods
        current_length == _get_range_length(RangeOf(current))
        existing_length == _get_range_length(RangeOf(existing))
    IN IF current_is_modifier /\ ~existing_is_modifier THEN "remove"
       ELSE IF ~current_is_modifier /\ existing_is_modifier THEN "skip"
       ELSE IF current_is_modifier /\ existing_is_modifier
            THEN IF current_length > existing_length THEN "remove"
                 ELSE IF current_length < existing_length THEN "skip"
                 ELSE "skip"
            ELSE IF current_length > existing_length THEN "remove"
                 ELSE "skip"

\* lines 67-108: the inner loop over overlapping_indices, in ascending order, from
\* index i on; yields should_add_current and indices_to_remove
RECURSIVE HandleOverlaps(_, _, _, _, _, _)
HandleOverlaps(res, current, mods, overlapping, i, indices_to_remove) ==
    IF i > Len(res)
    THEN [should_add_current |-> TRUE, indices_to_remove |-> indices_to_remove]
    ELSE IF i \notin overlapping
    THEN HandleOverlaps(res, current, mods, overlapping, i + 1, indices_to_remove)
    ELSE IF PairOutcome(current, res[i], mods) = "remove"
    THEN HandleOverlaps(res, current, mods, overlapping, i + 1,
                        indices_to_remove \cup {i})
    ELSE [should_add_current |-> FALSE, indices_to_remove |-> indices_to_remove]

\* variant of ResolveOne: the accepted spans the candidate beat are not popped
ResolveOne_NoPop(res, current, mods) ==
    LET overlapping == OverlappingIndices(res, current)
    IN IF overlapping = {}
       THEN Append(res, current)
       ELSE LET h == HandleOverlaps(res, current, mods, overlapping, 1, {})
            IN IF h.should_add_current THEN Append(res, current) ELSE res

\* lines 51-116: one iteration of the for loop, on the candidate current
ResolveOne(res, current, mods) ==
    LET overlapping == OverlappingIndices(res, current)
    IN IF overlapping = {}
       THEN Append(res, current)
       ELSE LET h == HandleOverlaps(res, current, mods, overlapping, 1, {})
                popped == RemoveIndices(res, h.indices_to_remove)
            IN IF h.should_add_current THEN Append(popped, current) ELSE popped

\* lines 49-118: the for loop over the sorted list
RECURSIVE ResolveLoop(_, _, _)
ResolveLoop(res, todo, mods) ==
    IF todo = <<>> THEN res
    ELSE ResolveLoop(ResolveOne(res, Head(todo), mods), Tail(todo), mods)

\* lines 28-118, as one function
_resolve_overlaps(reps, mods) ==
    IF Len(reps) <= 1 THEN reps
    ELSE ResolveLoop(<<>>, SortedByStart(reps), mods)

(* ---------------- the resolver run step by step ------------------------ *)
\* the consolidator's variables while another function runs
IdsUnused ==
    /\ known_entities = <<>>
    /\ snapshot = [w \in 1..NumWorkers |-> <<>>]
    /\ document = [w \in 1..NumWorkers |-> <<>>]
    /\ file_entities_dict = [w \in 1..NumWorkers |-> <<>>]
    /\ wpc = [w \in 1..NumWorkers |-> "idle"]
    /\ docs_done = [w \in 1..NumWorkers |-> 0]
    /\ stale = FALSE
    /\ assigned = {}

Spans ==
    { s \in [start_idx : 0..MaxStart, end_idx : 0..(MaxStart + MaxLen),
             replacement : SpanReplacements, source_entity : Surfaces] :
        /\ s.start_idx <= s.end_idx
        /\ s.end_idx - s.start_idx <= MaxLen }

InitResolve ==
    /\ pc = "resolve_entry"
    /\ IdsUnused
    /\ text = <<>>
    /\ pii_list = <<>>
    /\ modifiers = <<>>
    /\ masked = <<>>
    /\ replacements \in SeqsUpTo(Spans, MaxSpans)
    /\ modifier_entities \in { {}, {<<"a">>} }
    /\ sorted_replacements = <<>>
    /\ resolved = <<>>
    /\ next_idx = 1
    /\ returned = <<>>

\* lines 44-45: a list of at most one span is returned as it is
ResolveShortReturn ==
    /\ pc = "resolve_entry"
    /\ Len(replacements) <= 1
    /\ returned' = replacements
    /\ pc' = "resolve_done"
    /\ UNCHANGED <<idVars, maskVars, replacements,
                   modifier_entities, sorted_replacements, resolved, next_idx>>

\* lines 48-49
ResolveSort ==
    /\ pc = "resolve_entry"
    /\ Len(replacements) > 1
    /\ sorted_replacements' = SortedByStart(replacements)
    /\ resolved' = <<>>
    /\ next_idx' = 1
    /\ pc' = "resolve_loop"
    /\ UNCHANGED <<idVars, maskVars, replacements,
                   modifier_entities, returned>>

\* lines 51-116: one iteration
ResolveIterate ==
    /\ pc = "resolve_loop"
    /\ next_idx <= Len(sorted_replacements)
    /\ resolved' = ResolveOne(resolved, sorted_replacements[next_idx], modifier_entities)
    /\ next_idx' = next_idx + 1
    /\ UNCHANGED <<idVars, maskVars, pc, replacements,
                   modifier_entities, sorted_replacements, returned>>

\* line 118
ResolveReturn ==
    /\ pc = "resolve_loop"
    /\ next_idx > Len(sorted_replacements)
    /\ returned' = resolved
    /\ pc' = "resolve_done"
    /\ UNCHANGED <<idVars, maskVars, replacements,
                   modifier_entities, sorted_replacements, resolved, next_idx>>

NextResolve == ResolveShortReturn \/ ResolveSort \/ ResolveIterate \/ ResolveReturn

SpecResolve == InitResolve /\ [][NextResolve]_vars

(* ----------------------------- text_masking --------------------------- *)
Min(a, b) == IF a <= b THEN a ELSE b

\* text[:i] for i >= 0 (a slice bound past the end is clamped to the end)
SliceTo(t, i) == SubSeq(t, 1, Min(i, Len(t)))

\* text[i:] for i >= 0
SliceFrom(t, i) == SubSeq(t, Min(i, Len(t)) + 1, Len(t))

Digit(d) == <<"0", "1", "2", "3", "4", "5", "6", "7", "8", "9">>[d + 1]

\* str(n) for an integer n >= 0
RECURSIVE Str(_)
Str(n) == IF n < 10 THEN <<Digit(n)>> ELSE Str(n \div 10) \o <<Digit(n % 10)>>

\* lines 167, 172: type + "_" + str(id)
LabelOf(type, id) == type \o <<"_">> \o Str(id)

\* line 191: f"[{{{label}}}]"
Placeholder(label) == <<"[", "{">> \o label \o <<"}", "]">>

\* lines 149-159: the entity of every modifier that has a non-empty one
ModifierEntities(mods) ==
    { mods[i].entity : i \in { j \in 1..Len(mods) : mods[j].entity # <<>> } }

\* lines 176-194: the spans of one entity, in the order of its occurrences
ReplacementsOf(pii) ==
    [ i \in 1..Len(pii.occurrences) |->
        [start_idx |-> pii.occurrences[i].start_idx,
         end_idx |-> pii.occurrences[i].end_idx,
         replacement |-> Placeholder(LabelOf(pii.type, pii.id)),
         source_entity |-> pii.text] ]

\* lines 162-194: the spans of all entities, in the order of pii_list
RECURSIVE CollectReplacements(_)
CollectReplacements(piis) ==
    IF piis = <<>> THEN <<>>
    ELSE ReplacementsOf(Head(piis)) \o CollectReplacements(Tail(piis))

\* insert x into the list s, sorted descending by start_idx, after every element
\* whose start_idx is >= x's (stable, as list.sort(reverse=True) is)
RECURSIVE InsertDescending(_, _)
InsertDescending(s, x) ==
    IF s = <<>> THEN <<x>>
    ELSE IF Head(s).start_idx >= x.start_idx
         THEN <<Head(s)>> \o InsertDescending(Tail(s), x)
         ELSE <<x>> \o s

\* variant of SortedByStartDescending: the list is left in the resolver's order
SortedByStartDescending_Unsorted(s) == s

\* line 202: resolved_replacements.sort(key=lambda x: x["start_idx"], reverse=True)
RECURSIVE SortedByStartDescending(_)
SortedByStartDescending(s) ==
    IF s = <<>> THEN <<>>
    ELSE InsertDescending(SortedByStartDescending(SubSeq(s, 1, Len(s) - 1)), s[Len(s)])

\* line 211: text[:start_idx] + replacement_text + text[end_idx:]
ApplyReplacement(t, r) ==
    SliceTo(t, r.start_idx) \o r.replacement \o SliceFrom(t, r.end_idx)

\* the text of n characters: the alphabet, repeated
TextOfLen(n) == [ i \in 1..n |-> Alphabet[((i - 1) % Len(Alphabet)) + 1] ]

Occurrences ==
    { o \in [start_idx : 0..MaxTextLen, end_idx : 0..MaxTextLen] :
        o.start_idx <= o.end_idx }

\* the orders in which a pii_list holds distinct entities
KindOrders ==
    { o \in SeqsUpTo(PiiKinds, Cardinality(PiiKinds)) :
        \A i, j \in 1..Len(o) : i # j => o[i] # o[j] }

\* counts[1] + ... + counts[n]
RECURSIVE CountUpTo(_, _)
CountUpTo(counts, n) == IF n = 0 THEN 0 ELSE counts[n] + CountUpTo(counts, n - 1)

\* the pii_list of the entities ks, entity i holding the next counts[i] of occs
PiiListOf(ks, counts, occs) ==
    [ i \in 1..Len(ks) |->
        [type |-> ks[i].type, id |-> ks[i].id, text |-> ks[i].text,
         occurrences |-> SubSeq(occs, CountUpTo(counts, i - 1) + 1,
                                CountUpTo(counts, i))] ]

\* the state a call of text_masking starts in: distinct entities in any order
\* that hold at most MaxOccurrences occurrences in all
InitMask ==
    /\ pc = "mask_entry"
    /\ IdsUnused
    /\ text \in { TextOfLen(n) : n \in { MaxTextLen - 1, MaxTextLen } }
    /\ \E ks \in KindOrders : \E counts \in [1..Len(ks) -> 0..MaxOccurrences] :
          /\ CountUpTo(counts, Len(ks)) <= MaxOccurrences
          /\ \E occs \in [1..CountUpTo(counts, Len(ks)) -> Occurrences] :
                pii_list = PiiListOf(ks, counts, occs)
    /\ modifiers \in ModifierLists
    /\ masked = <<>>
    /\ replacements = <<>>
    /\ modifier_entities = {}
    /\ sorted_replacements = <<>>
    /\ resolved = <<>>
    /\ next_idx = 1
    /\ returned = <<>>

\* lines 148-194: the modifier entities and the replacement spans are collected
MaskCollect ==
    /\ pc = "mask_entry"
    /\ modifier_entities' = ModifierEntities(modifiers)
    /\ replacements' = CollectReplacements(pii_list)
    /\ pc' = "mask_resolve"
    /\ UNCHANGED <<idVars, maskVars, sorted_replacements, resolved, next_idx, returned>>

\* lines 197-202: the overlaps are resolved and the kept spans sorted, last first
MaskResolve ==
    /\ pc = "mask_resolve"
    /\ resolved' =
          SortedByStartDescending(_resolve_overlaps(replacements, modifier_entities))
    /\ masked' = text
    /\ next_idx' = 1
    /\ pc' = "mask_apply"
    /\ UNCHANGED <<idVars, text, pii_list, modifiers, replacements,
                   modifier_entities, sorted_replacements, returned>>

\* lines 205-211: one iteration of the loop that applies the replacements
MaskApply ==
    /\ pc = "mask_apply"
    /\ next_idx <= Len(resolved)
    /\ masked' = ApplyReplacement(masked, resolved[next_idx])
    /\ next_idx' = next_idx + 1
    /\ UNCHANGED <<idVars, text, pii_list, modifiers, pc, replacements,
                   modifier_entities, sorted_replacements, resolved, returned>>

\* line 213
MaskReturn ==
    /\ pc = "mask_apply"
    /\ next_idx > Len(resolved)
    /\ returned' = masked
    /\ pc' = "mask_done"
    /\ UNCHANGED <<idVars, maskVars, replacements, modifier_entities, sorted_replacements,
                   resolved, next_idx>>

NextMask == MaskCollect \/ MaskResolve \/ MaskApply \/ MaskReturn

SpecMask == InitMask /\ [][NextMask]_vars

(* ------------------------- set_file_entity_ids ------------------------- *)
UpperCase == <<"A", "B", "C", "D", "E", "F", "G", "H", "I", "J", "K", "L", "M",
               "N", "O", "P", "Q", "R", "S", "T", "U", "V", "W", "X", "Y", "Z">>

LowerCase == <<"a", "b", "c", "d", "e", "f", "g", "h", "i", "j", "k", "l", "m",
               "n", "o", "p", "q", "r", "s", "t", "u", "v", "w", "x", "y", "z">>

\* the lower-case letter of every upper-case letter
LowerOf ==
    [ c \in Range(UpperCase) |->
        LowerCase[CHOOSE i \in 1..Len(UpperCase) : UpperCase[i] = c] ]

LowerChar(c) == IF c \in DOMAIN LowerOf THEN LowerOf[c] ELSE c

\* str.lower()
Lower(str) == [ i \in 1..Len(str) |-> LowerChar(str[i]) ]

\* label.split("_")[0]: the label up to its first "_"
RECURSIVE SplitFirst(_)
SplitFirst(label) ==
    IF label = <<>> \/ Head(label) = "_" THEN <<>>
    ELSE <<Head(label)>> \o SplitFirst(Tail(label))

\* line 232: the keys of known_entities_dict
KnownKeys(known) == { Lower(known[i].name) : i \in 1..Len(known) }

\* line 232: known_entities_dict[key]; of two known entities of one lower-cased
\* name the dict comprehension keeps the later
KnownEntry(known, key) ==
    known[CHOOSE i \in 1..Len(known) :
            /\ Lower(known[i].name) = key
            /\ \A j \in (i + 1)..Len(known) : Lower(known[j].name) # key]

\* line 235: max([pii["id"] for pii in known_entities]) if known_entities_dict else 0
MaxKnownId(known) ==
    IF KnownKeys(known) = {} THEN 0
    ELSE CHOOSE m \in { known[i].id : i \in 1..Len(known) } :
            \A i \in 1..Len(known) : known[i].id <= m

\* variant of AssignIds: a new entity takes the running maximum without raising it
RECURSIVE AssignIds_NoIncrement(_, _, _)
AssignIds_NoIncrement(entities, known, max_id) ==
    IF entities = <<>> THEN <<>>
    ELSE LET pii == Head(entities)
         IN IF pii.key \in KnownKeys(known)
            THEN LET k == KnownEntry(known, pii.key)
                     type == SplitFirst(k.label)
                 IN << [key |-> pii.key, type |-> type, id |-> k.id,
                        label |-> LabelOf(type, k.id)] >>
                    \o AssignIds_NoIncrement(Tail(entities), known, max_id)
            ELSE << [key |-> pii.key, type |-> pii.type, id |-> max_id + 1,
                     label |-> LabelOf(pii.type, max_id + 1)] >>
                 \o AssignIds_NoIncrement(Tail(entities), known, max_id)

\* lines 236-244: the loop over file_entities_dict, in its iteration order, with
\* max_id the value of max_id_known_entities the iteration starts from
RECURSIVE AssignIds(_, _, _)
AssignIds(entities, known, max_id) ==
    IF entities = <<>> THEN <<>>
    ELSE LET pii == Head(entities)
         IN IF pii.key \in KnownKeys(known)
            THEN LET k == KnownEntry(known, pii.key)
                     type == SplitFirst(k.label)
                 IN << [key |-> pii.key, type |-> type, id |-> k.id,
                        label |-> LabelOf(type, k.id)] >>
                    \o AssignIds(Tail(entities), known, max_id)
            ELSE << [key |-> pii.key, type |-> pii.type, id |-> max_id + 1,
                     label |-> LabelOf(pii.type, max_id + 1)] >>
                 \o AssignIds(Tail(entities), known, max_id + 1)

\* lines 228-246; an entity of file_entities_dict is its key with the fields of
\* its value, and the dict is the list of its entities in iteration order
set_file_entity_ids(entities, known) ==
    AssignIds(entities, known, MaxKnownId(known))

\* the caller's update of the registry reg with the result of a call that was
\* given the known entities known: the entities whose key the call did not find
\* among the known entities are added as {id, label, name}, in order, unless
\* the registry holds that very entry already
RECURSIVE RegistryUpdate(_, _, _)
RegistryUpdate(reg, result, known) ==
    IF result = <<>> THEN reg
    ELSE LET e == Head(result)
             entry == [id |-> e.id, label |-> e.label, name |-> e.key]
         IN IF e.key \in KnownKeys(known) \/ entry \in Range(reg)
            THEN RegistryUpdate(reg, Tail(result), known)
            ELSE RegistryUpdate(Append(reg, entry), Tail(result), known)

\* the dicts given to set_file_entity_ids: at most n entities, of distinct keys;
\* an entity has no id and no label before the call
RECURSIVE Documents(_)
Documents(n) ==
    IF n = 0 THEN { <<>> }
    ELSE LET shorter == Documents(n - 1)
         IN shorter \cup
            { Append(d, [key |-> kd.key, type |-> kd.type, id |-> 0, label |-> <<>>]) :
                d \in { x \in shorter : Len(x) = n - 1 },
                kd \in FileEntityKinds }

DistinctKeys(d) == \A i, j \in 1..Len(d) : i # j => d[i].key # d[j].key

\* the dicts a call may be given
AllDocuments == { d \in Documents(MaxEntities) : DistinctKeys(d) }

InitIds ==
    /\ known_entities \in InitialRegistries
    /\ snapshot = [w \in 1..NumWorkers |-> <<>>]
    /\ document = [w \in 1..NumWorkers |-> <<>>]
    /\ file_entities_dict = [w \in 1..NumWorkers |-> <<>>]
    /\ wpc = [w \in 1..NumWorkers |-> "idle"]
    /\ docs_done = [w \in 1..NumWorkers |-> 0]
    /\ stale = FALSE
    /\ assigned = {}
    /\ pc = "ids"
    /\ text = <<>>
    /\ pii_list = <<>>
    /\ modifiers = <<>>
    /\ masked = <<>>
    /\ replacements = <<>>
    /\ modifier_entities = {}
    /\ sorted_replacements = <<>>
    /\ resolved = <<>>
    /\ next_idx = 1
    /\ returned = <<>>

RECURSIVE SumTo(_, _)
SumTo(f, n) == IF n = 0 THEN 0 ELSE f[n] + SumTo(f, n - 1)

\* documents taken up so far, written or not
DocsStarted ==
    SumTo(docs_done, NumWorkers) + Cardinality({ w \in 1..NumWorkers : wpc[w] = "called" })

\* worker w reads the registry and calls set_file_entity_ids on it for document d
CallSetFileEntityIds(w, d) ==
    /\ wpc[w] = "idle"
    /\ DocsStarted < MaxDocs
    /\ snapshot' = [snapshot EXCEPT ![w] = known_entities]
    /\ document' = [document EXCEPT ![w] = d]
    /\ file_entities_dict' =
          [file_entities_dict EXCEPT ![w] = set_file_entity_ids(d, known_entities)]
    /\ wpc' = [wpc EXCEPT ![w] = "called"]
    /\ UNCHANGED <<known_entities, docs_done, stale, assigned, maskVars, pc,
                   resolveVars, returned>>

\* the caller writes the result of worker w's call into the registry, one write
\* at a time; the call's arguments and result are then dropped
WriteRegistry(w) ==
    /\ wpc[w] = "called"
    /\ known_entities' =
          RegistryUpdate(known_entities, file_entities_dict[w], snapshot[w])
    /\ assigned' = assigned \cup
          { <<Lower(e.key), e.id>> : e \in Range(file_entities_dict[w]) }
    /\ stale' = (stale \/ snapshot[w] # known_entities)
    /\ docs_done' = [docs_done EXCEPT ![w] = @ + 1]
    /\ wpc' = [wpc EXCEPT ![w] = "idle"]
    /\ snapshot' = [snapshot EXCEPT ![w] = <<>>]
    /\ document' = [document EXCEPT ![w] = <<>>]
    /\ file_entities_dict' = [file_entities_dict EXCEPT ![w] = <<>>]
    /\ UNCHANGED <<maskVars, pc, resolveVars, returned>>

\* one caller processes the documents one after another
NextSequential ==
    \/ \E d \in AllDocuments : CallSetFileEntityIds(1, d)
    \/ WriteRegistry(1)

SpecSequential == InitIds /\ [][NextSequential]_vars

\* every worker calls on its own snapshot; the writes are serialized
NextWorkers ==
    \/ \E w \in 1..NumWorkers : \E d \in AllDocuments :
            CallSetFileEntityIds(w, d)
    \/ \E w \in 1..NumWorkers : WriteRegistry(w)

SpecWorkers == InitIds /\ [][NextWorkers]_vars

(* ------------------- properties of _resolve_overlaps ------------------- *)
Overlap(s, t) == s.start_idx < t.end_idx /\ t.start_idx < s.end_idx

IsModifier(s) == s.source_entity \in modifier_entities

SpanLength(s) == s.end_idx - s.start_idx

ResolveDone == pc = "resolve_done"

\* C1: the list _resolve_overlaps returns holds only elements of its input, none
\* more often than the input holds it, and no two of its spans overlap
\* (start1 < end2 and start2 < end1).
C1_SubsetWithoutOverlap ==
    ResolveDone =>
        /\ SeqToBag(returned) \sqsubseteq SeqToBag(replacements)
        /\ \A i, j \in 1..Len(returned) : i # j => ~Overlap(returned[i], returned[j])

C1_Witness ==
    /\ ResolveDone
    /\ Len(replacements) = 3
    /\ Len(returned) = 2
    /\ \E i, j \in 1..3 : i # j /\ Overlap(replacements[i], replacements[j])

\* C2: every input span that _resolve_overlaps did not return overlaps a span it
\* returned (the returned subset is maximal).
C2_Maximal ==
    ResolveDone =>
        \A i \in 1..Len(replacements) :
            LET s == replacements[i]
            IN CopiesIn(s, SeqToBag(returned)) < CopiesIn(s, SeqToBag(replacements))
                  => \E j \in 1..Len(returned) : Overlap(s, returned[j])

\* the two spans of a two-element input overlap
TwoOverlapping ==
    /\ Len(replacements) = 2
    /\ Overlap(replacements[1], replacements[2])

\* C3: of two overlapping spans of which exactly one is modifier-sourced,
\* _resolve_overlaps returns exactly the modifier-sourced one.
C3_ModifierWins ==
    (ResolveDone /\ TwoOverlapping
        /\ IsModifier(replacements[1]) # IsModifier(replacements[2]))
    => returned = << IF IsModifier(replacements[1]) THEN replacements[1]
                     ELSE replacements[2] >>

\* the modifier-sourced span is the shorter one, starts later and comes later
C3_Witness ==
    /\ ResolveDone /\ TwoOverlapping
    /\ ~IsModifier(replacements[1]) /\ IsModifier(replacements[2])
    /\ SpanLength(replacements[2]) < SpanLength(replacements[1])
    /\ replacements[1].start_idx < replacements[2].start_idx
    /\ returned = <<replacements[2]>>

\* the span C4 names: the longer; at equal length the one with the smaller
\* start_idx; at equal start_idx too, the first of the input
C4_Winner ==
    LET a == replacements[1]
        b == replacements[2]
    IN IF SpanLength(a) # SpanLength(b)
       THEN (IF SpanLength(a) > SpanLength(b) THEN a ELSE b)
       ELSE IF a.start_idx # b.start_idx
       THEN (IF a.start_idx < b.start_idx THEN a ELSE b)
       ELSE a

\* C4: of two overlapping spans of the same provenance, _resolve_overlaps returns
\* exactly the longer; at equal length the one with the smaller start_idx; at
\* equal start_idx too, the one that comes first in the input.
C4_LongerWins ==
    (ResolveDone /\ TwoOverlapping
        /\ IsModifier(replacements[1]) = IsModifier(replacements[2]))
    => returned = <<C4_Winner>>

\* equal lengths, and the span with the smaller start_idx comes second in the input
C4_Witness ==
    /\ ResolveDone /\ TwoOverlapping
    /\ IsModifier(replacements[1]) = IsModifier(replacements[2])
    /\ SpanLength(replacements[1]) = SpanLength(replacements[2])
    /\ replacements[2].start_idx < replacements[1].start_idx
    /\ returned = <<replacements[2]>>

\* the iteration about to run discards its candidate: the candidate overlaps an
\* accepted span and loses to one (should_add_current is False)
CandidateDiscarded ==
    /\ pc = "resolve_loop"
    /\ next_idx <= Len(sorted_replacements)
    /\ LET current == sorted_replacements[next_idx]
           overlapping == OverlappingIndices(resolved, current)
       IN /\ overlapping # {}
          /\ ~HandleOverlaps(resolved, current, modifier_entities,
                             overlapping, 1, {}).should_add_current

\* C11: every step of _resolve_overlaps that discards its candidate leaves the
\* accepted list exactly as it was: a discarded candidate removes no accepted
\* span, zero-length spans included.
C11_DiscardKeepsAccepted ==
    [][CandidateDiscarded => resolved' = resolved]_vars

\* two spans that do not overlap are accepted, the first of zero length; the
\* third span, of zero length too, overlaps the second, loses, and both stay
C11_Witness ==
    /\ ResolveDone
    /\ Len(replacements) = 3
    /\ SortedByStart(replacements) = replacements
    /\ SpanLength(replacements[1]) = 0 /\ SpanLength(replacements[3]) = 0
    /\ ~Overlap(replacements[1], replacements[2])
    /\ ~Overlap(replacements[1], replacements[3])
    /\ Overlap(replacements[3], replacements[2])
    /\ returned = <<replacements[1], replacements[2]>>

(* ---------------------- properties of text_masking --------------------- *)
MaskDone == pc = "mask_done"

\* every occurrence has 0 <= start_idx < end_idx <= len(text)
ValidOccurrences ==
    \A i \in 1..Len(pii_list) : \A j \in 1..Len(pii_list[i].occurrences) :
        LET o == pii_list[i].occurrences[j]
        IN 0 <= o.start_idx /\ o.start_idx < o.end_idx /\ o.end_idx <= Len(text)

\* the spans the overlap resolver keeps of the spans of pii_list
KeptSpans == Range(_resolve_overlaps(CollectReplacements(pii_list),
                                     ModifierEntities(modifiers)))

\* t, read from offset pos on, with every range of spans replaced at once by its
\* replacement and every other character kept
RECURSIVE ReplacedAtOnce(_, _, _)
ReplacedAtOnce(t, spans, pos) ==
    IF pos >= Len(t) THEN <<>>
    ELSE IF \E r \in spans : r.start_idx = pos
    THEN LET r == CHOOSE r \in spans : r.start_idx = pos
         IN r.replacement \o ReplacedAtOnce(t, spans, r.end_idx)
    ELSE <<t[pos + 1]>> \o ReplacedAtOnce(t, spans, pos + 1)

Contains(t, s) ==
    \E i \in 0..(Len(t) - Len(s)) : SubSeq(t, i + 1, i + Len(s)) = s

MaxPiiId ==
    IF pii_list = <<>> THEN 0
    ELSE CHOOSE m \in { pii_list[i].id : i \in 1..Len(pii_list) } :
            \A i \in 1..Len(pii_list) : pii_list[i].id <= m

\* C10: a modifier of action "mask" whose entity occurs in the text and is not the
\* text of a detected entity makes text_masking put the placeholder of the
\* modifier's type and the next free id in place of that occurrence.
C10_ModifierMasked ==
    MaskDone =>
        \A i \in 1..Len(modifiers) :
            LET m == modifiers[i]
            IN (/\ m.action = "mask"
                /\ m.entity # <<>>
                /\ Contains(text, m.entity)
                /\ \A k \in 1..Len(pii_list) : pii_list[k].text # m.entity)
               => Contains(returned, Placeholder(LabelOf(m.type, MaxPiiId + 1)))

(* ------------------ properties of set_file_entity_ids ------------------ *)
Called(w) == wpc[w] = "called"

\* C6: every entity whose key equals the name of a known entity up to letter case
\* gets the id of that known entity, whatever the letter case of the key and of
\* the name.
C6_CaseInsensitiveMatch ==
    \A w \in 1..NumWorkers :
        Called(w) =>
            \A i \in 1..Len(file_entities_dict[w]) : \A k \in 1..Len(snapshot[w]) :
                Lower(file_entities_dict[w][i].key) = Lower(snapshot[w][k].name)
                    => file_entities_dict[w][i].id = snapshot[w][k].id

\* the largest id of the known entities, 0 when there are none
LargestId(known) ==
    IF known = <<>> THEN 0
    ELSE CHOOSE m \in { known[i].id : i \in 1..Len(known) } :
            \A i \in 1..Len(known) : known[i].id <= m

\* the positions of the entities of worker w's document that the call found no
\* known entity for: the key is not the lower-cased name of a known entity
Unmatched(w) ==
    { i \in 1..Len(document[w]) :
        \A k \in 1..Len(snapshot[w]) : document[w][i].key # Lower(snapshot[w][k].name) }

RegistryIdsUnique ==
    /\ \A i \in 1..Len(known_entities) : known_entities[i].id > 0
    /\ \A i, j \in 1..Len(known_entities) :
            i # j => known_entities[i].id # known_entities[j].id

\* no id of the registry is held by two different normalized texts
OneTextPerId ==
    \A i, j \in 1..Len(known_entities) :
        known_entities[i].id = known_entities[j].id
            => Lower(known_entities[i].name) = Lower(known_entities[j].name)

\* a normalized text that got an id in an earlier document gets that id again
SameIdAsBefore ==
    \A w \in 1..NumWorkers :
        Called(w) =>
            \A i \in 1..Len(file_entities_dict[w]) : \A p \in assigned :
                p[1] = Lower(file_entities_dict[w][i].key)
                    => p[2] = file_entities_dict[w][i].id

\* C8: over documents processed one after another, with the returned entities
\* added to the registry after each call, the registry ids are unique positive
\* integers, no id is held by two normalized texts, and a normalized text that
\* got an id in one document gets the same id in every later one.
C8_StableIds == RegistryIdsUnique /\ OneTextPerId /\ SameIdAsBefore

\* C9: with workers calling on their own snapshots and the writes of the results
\* serialized, the registry stays safe in every interleaving: its ids are unique
\* and no id is held by two different normalized texts.
C9_RegistrySafe == RegistryIdsUnique /\ OneTextPerId

\* C9, amended: the registry stays safe as long as no result is written whose
\* snapshot is no longer the registry (the registry is not changed between a
\* worker's read of it and the write of that worker's result).
C9_SafeWhenNotStale == ~stale => C9_RegistrySafe

\* worker 1 has written a result, worker 2 has then called on the registry as
\* worker 1 left it and is given ids past those worker 1 wrote
C9_Witness ==
    /\ ~stale
    /\ docs_done[1] = 1 /\ docs_done[2] = 0
    /\ Called(2)
    /\ snapshot[2] = known_entities
    /\ assigned # {}
    /\ \E i \in 1..Len(file_entities_dict[2]) : \A p \in assigned :
            /\ file_entities_dict[2][i].id > p[2]
            /\ p[2] = LargestId(known_entities)

====
